---- MODULE Spec2Model ----
(***************************************************************************)
(* A model of lib/IR/IR.cpp of Hermes: the use-def registry of Value and   *)
(* Instruction, the cascading erase of BasicBlock, the internal-name       *)
(* derivation of Module, the CJS function-use graph and the global         *)
(* property table.                                                         *)
(*                                                                         *)
(* Indices stored in a Use are 0-based as in the C++ code; TLA+ sequences  *)
(* are 1-based, so Users[p][j + 1] is the code's p->Users[j].              *)
(***************************************************************************)
EXTENDS Integers, Sequences, FiniteSets, TLC

\* ------------------------------------------------------------------------
\* The universe of the use-def model.

\* The null Value pointer.
Null == "null"

\* Three instructions, two basic blocks, two functions of one module and one
\* plain value (a parameter or a literal).  Every one of them is a Value and
\* so may be the producer of an operand.
Insts == {"I1", "I2", "I3"}
Blocks == {"B1", "B2"}
Funcs == {"F", "G"}
Plain == {"x"}
Values == Insts \cup Blocks \cup Funcs \cup Plain

\* The values the operations are given as operands: every instruction, the
\* plain value and the first block.
Producers == Insts \cup Plain \cup {"B1"}

\* The cap on the number of operand slots of all instructions together.
MaxSlots == 3

VARIABLES
    Operands,        \* Instruction::Operands: instruction -> sequence of Use
    Users,           \* Value::Users: value -> sequence of instructions
    InstList,        \* BasicBlock::InstList: block -> sequence of instructions
    Parent,          \* Instruction::Parent: instruction -> block
    BasicBlockList,  \* Function::BasicBlockList: function -> sequence of blocks
    BlockParent,     \* BasicBlock::Parent: block -> function
    FunctionList,    \* Module::FunctionList: sequence of functions
    erased,          \* the values that have been destroyed (delete)
    destroyed,       \* the values the last call destroyed, in order, each with
                     \* the users it had when it was destroyed
    fault,           \* "none", or the failure that ended the program
    lastOp           \* the name of the operation that ran last

useVars == <<Operands, Users, InstList, Parent, BasicBlockList, BlockParent,
            FunctionList, erased, destroyed, fault, lastOp>>

\* ------------------------------------------------------------------------
\* Helpers.

Range(s) == {s[i] : i \in 1..Len(s)}

MinOf(S) == CHOOSE i \in S : \A j \in S : i <= j

\* The map with no entry.
EmptyMap == [k \in {} |-> {}]

\* The sequence s without its element at (1-based) position i.
RemoveAt(s, i) == SubSeq(s, 1, i - 1) \o SubSeq(s, i + 1, Len(s))

\* A Use is the pair (producer, index into the producer's Users).
MkUse(p, j) == [first |-> p, second |-> j]
NullUse == MkUse(Null, 0)

\* The heap the operators below transform, at the start of a call.
Heap ==
    [Operands |-> Operands, Users |-> Users, InstList |-> InstList,
     Parent |-> Parent, BasicBlockList |-> BasicBlockList,
     BlockParent |-> BlockParent, FunctionList |-> FunctionList,
     erased |-> erased, destroyed |-> << >>, fault |-> fault]

\* Value::destroy(v): v is deleted.
Destroy(h, v) ==
    [h EXCEPT !.erased = @ \cup {v},
              !.destroyed = Append(@, [value |-> v, users |-> h.Users[v]])]

\* A failed assertion, an llvm_unreachable or an access to a destroyed object
\* ends the program; the heap is kept as it was at that point.
Fail(h, why) == [h EXCEPT !.fault = why]

\* The lowest 1-based position of ops that satisfies the test, or 0.
FirstUseAt(ops, u) ==
    LET S == {i \in 1..Len(ops) : ops[i] = u}
    IN  IF S = {} THEN 0 ELSE MinOf(S)

FirstProducerAt(ops, v) ==
    LET S == {i \in 1..Len(ops) : ops[i].first = v}
    IN  IF S = {} THEN 0 ELSE MinOf(S)

\* ------------------------------------------------------------------------
\* Value::removeUse and Value::addUser.

\* removeUse without the patch of the moved instruction's operand.
RemoveUseNoPatch(h, this, U) ==
    IF h.fault # "none" THEN h
    ELSE IF this \in h.erased THEN Fail(h, "use after free")
    ELSE IF Len(h.Users[this]) = 0 \/ U.first # this
            \/ U.second >= Len(h.Users[this])
    THEN Fail(h, "assert: removeUse")
    ELSE LET n == Len(h.Users[this])
             moved == [h.Users[this] EXCEPT ![U.second + 1] = h.Users[this][n]]
         IN  [h EXCEPT !.Users[this] = SubSeq(moved, 1, n - 1)]

RemoveUse(h, this, U) ==
    IF h.fault # "none" THEN h
    ELSE IF this \in h.erased THEN Fail(h, "use after free")
    ELSE IF Len(h.Users[this]) = 0 \/ U.first # this
            \/ U.second >= Len(h.Users[this])
    THEN Fail(h, "assert: removeUse")
    ELSE LET n == Len(h.Users[this])
             \* Users[U.second] = Users.back(); Users.pop_back();
             moved == [h.Users[this] EXCEPT ![U.second + 1] = h.Users[this][n]]
             popped == SubSeq(moved, 1, n - 1)
             h1 == [h EXCEPT !.Users[this] = popped]
         IN  IF U.second # Len(popped)
             THEN LET oldUse == MkUse(this, Len(popped))
                      inst == popped[U.second + 1]
                      i == FirstUseAt(h1.Operands[inst], oldUse)
                  IN  IF i = 0
                      THEN Fail(h1, "unreachable: Can't find user in operand list")
                      ELSE [h1 EXCEPT !.Operands[inst][i] = MkUse(this, U.second)]
             ELSE h1

\* addUser that puts the instruction at the front of Users.
AddUserFront(h, this, Inst) == [h EXCEPT !.Users[this] = <<Inst>> \o @]

\* getNumUsers that counts the distinct user instructions.
GetNumDistinctUsers(h, v) == Cardinality(Range(h.Users[v]))

\* Value::getNumUsers: the size of the user list.
GetNumUsers(h, v) == Len(h.Users[v])

\* Value::hasUsers: the size of the user list converted to bool.
HasUsers(h, v) == Len(h.Users[v]) # 0

\* Value::hasOneUser.
HasOneUser(h, v) == 1 = Len(h.Users[v])

\* The heap after Users.push_back(Inst); the Use returned is
\* MkUse(this, Len(Users[this]) - 1) of that heap.
AddUser(h, this, Inst) == [h EXCEPT !.Users[this] = Append(@, Inst)]

\* ------------------------------------------------------------------------
\* Instruction's operand primitives.  Index is 0-based.

\* setOperand without the early return for a slot that already holds Val.
SetOperandAlways(h, I, Val, Index) ==
    IF h.fault # "none" THEN h
    ELSE IF Index >= Len(h.Operands[I])
    THEN Fail(h, "assert: Not all operands have been pushed!")
    ELSE LET CurrentValue == h.Operands[I][Index + 1].first
             h1 == IF CurrentValue # Null
                   THEN RemoveUse(h, CurrentValue, h.Operands[I][Index + 1])
                   ELSE h
         IN  IF h1.fault # "none" THEN h1
             ELSE IF Val # Null
             THEN LET h2 == AddUser(h1, Val, I)
                  IN  [h2 EXCEPT !.Operands[I][Index + 1] =
                           MkUse(Val, Len(h2.Users[Val]) - 1)]
             ELSE [h1 EXCEPT !.Operands[I][Index + 1] = NullUse]

SetOperand(h, I, Val, Index) ==
    IF h.fault # "none" THEN h
    ELSE IF Index >= Len(h.Operands[I])
    THEN Fail(h, "assert: Not all operands have been pushed!")
    ELSE LET CurrentValue == h.Operands[I][Index + 1].first
         IN  IF CurrentValue = Val THEN h
             ELSE LET h1 == IF CurrentValue # Null
                            THEN RemoveUse(h, CurrentValue, h.Operands[I][Index + 1])
                            ELSE h
                  IN  IF h1.fault # "none" THEN h1
                      ELSE IF Val # Null
                      THEN LET h2 == AddUser(h1, Val, I)
                           IN  [h2 EXCEPT !.Operands[I][Index + 1] =
                                    MkUse(Val, Len(h2.Users[Val]) - 1)]
                      ELSE [h1 EXCEPT !.Operands[I][Index + 1] = NullUse]

PushOperand(h, I, Val) ==
    LET h1 == [h EXCEPT !.Operands[I] = Append(@, NullUse)]
    IN  SetOperand(h1, I, Val, Len(h1.Operands[I]) - 1)

RemoveOperand(h, I, index) ==
    LET h1 == SetOperand(h, I, Null, index)
    IN  IF h1.fault # "none" THEN h1
        ELSE [h1 EXCEPT !.Operands[I] = RemoveAt(@, index + 1)]

\* replaceFirstOperandWith that stores the new producer in the slot without
\* going through setOperand: the old producer keeps the user.
ReplaceFirstOperandNoUnregister(h, I, OldValue, NewValue) ==
    LET i == FirstProducerAt(h.Operands[I], OldValue)
    IN  IF h.fault # "none" THEN h
        ELSE IF i = 0
        THEN Fail(h, "unreachable: Can't find operand. Invalid use-def chain.")
        ELSE [h EXCEPT !.Operands[I][i].first = NewValue]

ReplaceFirstOperandWith(h, I, OldValue, NewValue) ==
    LET i == FirstProducerAt(h.Operands[I], OldValue)
    IN  IF h.fault # "none" THEN h
        ELSE IF i = 0
        THEN Fail(h, "unreachable: Can't find operand. Invalid use-def chain.")
        ELSE SetOperand(h, I, NewValue, i - 1)

\* The first loop of eraseOperand, from slot i to slot e - 1.
RECURSIVE EraseOperandLoop(_, _, _, _, _)
EraseOperandLoop(h, I, Value, i, e) ==
    IF i >= e \/ h.fault # "none" THEN h
    ELSE EraseOperandLoop(
             IF h.Operands[I][i + 1].first = Value
             THEN SetOperand(h, I, Null, i) ELSE h,
             I, Value, i + 1, e)

IsSetUse(U) == U.first # Null

\* eraseOperand that clears only the first slot that references Value.
EraseFirstOperandOnly(h, I, Value) ==
    LET i == FirstProducerAt(h.Operands[I], Value)
        h1 == IF i = 0 THEN h ELSE SetOperand(h, I, Null, i - 1)
    IN  IF h1.fault # "none" THEN h1
        ELSE [h1 EXCEPT !.Operands[I] = SelectSeq(@, IsSetUse)]

EraseOperand(h, I, Value) ==
    LET h1 == EraseOperandLoop(h, I, Value, 0, Len(h.Operands[I]))
        h2 == [h1 EXCEPT !.Operands[I] = SelectSeq(@, IsSetUse)]
    IN  IF h1.fault # "none" THEN h1
        ELSE IF I \in Range(h2.Users[Value])
        THEN Fail(h2, "assert: corrupt uselist")
        ELSE h2

\* ------------------------------------------------------------------------
\* Value::replaceAllUsesWith and Value::removeAllUses.

\* replaceAllUsesWith that handles the last user once and stops.
ReplaceOneUseWith(h, this, Other) ==
    IF this = Other \/ h.fault # "none" \/ Len(h.Users[this]) = 0 THEN h
    ELSE ReplaceFirstOperandWith(h, h.Users[this][Len(h.Users[this])], this, Other)

RECURSIVE ReplaceAllUsesWith(_, _, _)
ReplaceAllUsesWith(h, this, Other) ==
    IF this = Other THEN h
    ELSE IF h.fault # "none" \/ Len(h.Users[this]) = 0 THEN h
    ELSE ReplaceAllUsesWith(
             ReplaceFirstOperandWith(h, h.Users[this][Len(h.Users[this])], this, Other),
             this, Other)

RECURSIVE RemoveAllUses(_, _)
RemoveAllUses(h, this) ==
    IF h.fault # "none" \/ Len(h.Users[this]) = 0 THEN h
    ELSE RemoveAllUses(EraseOperand(h, h.Users[this][Len(h.Users[this])], this), this)

\* ------------------------------------------------------------------------
\* Instruction::eraseFromParent and BasicBlock::eraseFromParent.

RECURSIVE ReleaseOperands(_, _, _)
ReleaseOperands(h, I, i) ==
    IF h.fault # "none" \/ i >= Len(h.Operands[I]) THEN h
    ELSE ReleaseOperands(SetOperand(h, I, Null, i), I, i + 1)

\* BasicBlock::erase(I): unlink I from the list and destroy it.
BasicBlockErase(h, b, I) ==
    Destroy([h EXCEPT !.InstList[b] = SelectSeq(@, LAMBDA J : J # I),
                      !.Operands[I] = <<>>], I)

InstructionEraseFromParent(h, I) ==
    LET h1 == ReleaseOperands(h, I, 0)
    IN  IF h1.fault # "none" THEN h1
        ELSE BasicBlockErase(h1, h1.Parent[I], I)

\* DrainBlock without the replaceAllUsesWith(nullptr) of each instruction.
RECURSIVE DrainBlockNoRAUW(_, _)
DrainBlockNoRAUW(h, b) ==
    IF h.fault # "none" \/ Len(h.InstList[b]) = 0 THEN h
    ELSE DrainBlockNoRAUW(InstructionEraseFromParent(h, Head(h.InstList[b])), b)

\* The while loop of BasicBlock::eraseFromParent.
RECURSIVE DrainBlock(_, _)
DrainBlock(h, b) ==
    IF h.fault # "none" \/ Len(h.InstList[b]) = 0 THEN h
    ELSE LET I == Head(h.InstList[b])
         IN  DrainBlock(InstructionEraseFromParent(ReplaceAllUsesWith(h, I, Null), I), b)

\* assert(!hasUsers()) is compiled in (ndebug = FALSE: a failure ends the
\* program) or compiled out (ndebug = TRUE: the block is destroyed with its
\* users left as they are).
BasicBlockEraseFromParent(h, b, ndebug) ==
    LET h1 == DrainBlock(h, b)
    IN  IF h1.fault # "none" THEN h1
        ELSE IF Len(h1.Users[b]) # 0 /\ ~ndebug
        THEN Fail(h1, "assert: Use list is not empty")
        ELSE Destroy([h1 EXCEPT !.BasicBlockList[h1.BlockParent[b]] =
                                    SelectSeq(@, LAMBDA c : c # b)], b)

\* ------------------------------------------------------------------------
\* The state after construction, and the actions.

UseInit ==
    /\ Operands = [I \in Insts |-> <<>>]
    /\ Users = [v \in Values |-> <<>>]
    /\ InstList = [b \in Blocks |-> IF b = "B1" THEN <<"I1", "I2">> ELSE <<"I3">>]
    /\ Parent = [I \in Insts |-> IF I = "I3" THEN "B2" ELSE "B1"]
    /\ BasicBlockList = [f \in Funcs |-> IF f = "F" THEN <<"B1", "B2">> ELSE << >>]
    /\ BlockParent = [b \in Blocks |-> "F"]
    /\ FunctionList = <<"F", "G">>
    /\ erased = {}
    /\ destroyed = << >>
    /\ fault = "none"
    /\ lastOp = "init"

TotalSlots == LET RECURSIVE Sum(_)
                  Sum(S) == IF S = {} THEN 0
                            ELSE LET I == CHOOSE J \in S : TRUE
                                 IN  Len(Operands[I]) + Sum(S \ {I})
              IN  Sum(Insts)

Live(S) == S \ erased

\* The heap that heap evaluates to becomes the state.
Becomes(heap) ==
    \E h \in {heap} :
        /\ Operands' = h.Operands
        /\ Users' = h.Users
        /\ InstList' = h.InstList
        /\ Parent' = h.Parent
        /\ BasicBlockList' = h.BasicBlockList
        /\ BlockParent' = h.BlockParent
        /\ FunctionList' = h.FunctionList
        /\ erased' = h.erased
        /\ destroyed' = h.destroyed
        /\ fault' = h.fault

DoPushOperand ==
    \E I \in Live(Insts), Val \in Live(Producers) \cup {Null} :
        /\ fault = "none"
        /\ TotalSlots < MaxSlots
        /\ Becomes(PushOperand(Heap, I, Val))
        /\ lastOp' = "pushOperand"

DoSetOperand ==
    \E I \in Live(Insts), Val \in Live(Producers) \cup {Null} :
        \E Index \in 0..(Len(Operands[I]) - 1) :
            /\ fault = "none"
            /\ Becomes(SetOperand(Heap, I, Val, Index))
            /\ lastOp' = "setOperand"

DoRemoveOperand ==
    \E I \in Live(Insts) :
        \E index \in 0..(Len(Operands[I]) - 1) :
            /\ fault = "none"
            /\ Becomes(RemoveOperand(Heap, I, index))
            /\ lastOp' = "removeOperand"

\* The caller names an operand the instruction has.
DoReplaceFirstOperandWith ==
    \E I \in Live(Insts), NewValue \in Live(Producers) \cup {Null} :
        \E OldValue \in {Operands[I][k].first : k \in 1..Len(Operands[I])} :
            /\ fault = "none"
            /\ Becomes(ReplaceFirstOperandWith(Heap, I, OldValue, NewValue))
            /\ lastOp' = "replaceFirstOperandWith"

DoEraseOperand ==
    \E I \in Live(Insts), Value \in Live(Producers) :
        /\ fault = "none"
        /\ Becomes(EraseOperand(Heap, I, Value))
        /\ lastOp' = "eraseOperand"

DoReplaceAllUsesWith ==
    \E this \in Live(Producers), Other \in Live(Producers) \cup {Null} :
        /\ fault = "none"
        /\ Becomes(ReplaceAllUsesWith(Heap, this, Other))
        /\ lastOp' = "replaceAllUsesWith"

DoRemoveAllUses ==
    \E this \in Live(Producers) :
        /\ fault = "none"
        /\ Becomes(RemoveAllUses(Heap, this))
        /\ lastOp' = "removeAllUses"

DoBasicBlockEraseFromParent ==
    \E b \in Live(Blocks), ndebug \in BOOLEAN :
        /\ fault = "none"
        /\ Becomes(BasicBlockEraseFromParent(Heap, b, ndebug))
        /\ lastOp' = "BasicBlock::eraseFromParent"

\* ------------------------------------------------------------------------
\* Module::deriveUniqueInternalName and stripInternalNameSuffix.  A name is a
\* sequence of characters; a character is a string of length one.

\* The character codes the comparisons of stripInternalNameSuffix use.
Ord ==
    (" " :> 32) @@ ("#" :> 35) @@ ("/" :> 47) @@ ("0" :> 48) @@ ("1" :> 49) @@
    ("2" :> 50) @@ ("3" :> 51) @@ ("4" :> 52) @@ ("5" :> 53) @@ ("6" :> 54) @@
    ("7" :> 55) @@ ("8" :> 56) @@ ("9" :> 57) @@ (":" :> 58) @@ ("f" :> 102) @@
    ("g" :> 103)

DigitChars == <<"0", "1", "2", "3", "4", "5", "6", "7", "8", "9">>

\* The names requested of one Module: "f", "f 1#", "f 3#", "f 1# 2#", "g".
NameInputs ==
    { <<"f">>,
      <<"f", " ", "1", "#">>,
      <<"f", " ", "3", "#">>,
      <<"f", " ", "1", "#", " ", "2", "#">>,
      <<"g">> }

\* The number of deriveUniqueInternalName calls on one Module.
MaxRequests == 4

\* The names stripping is checked on: every sequence of at most MaxLen
\* characters of StripAlphabet.
StripAlphabet == {"f", " ", "3", "#", ":"}
MaxLen == 6
BoundedNames == UNION {[1..n -> StripAlphabet] : n \in 0..MaxLen}

VARIABLES
    internalNamesMap_,  \* Module::internalNamesMap_: stripped name -> counter
    requested,          \* the names requested so far, in order
    returned,           \* the names returned for them, in order
    probe               \* the name whose stripping is examined

nameVars == <<internalNamesMap_, requested, returned, probe>>

\* c >= '0' && c <= '9'
IsDigit(c) == Ord[c] >= Ord["0"] /\ Ord[c] <= Ord["9"]

\* The while loop of stripInternalNameSuffix; e is the offset of the iterator
\* from originalStr.begin(), so that e[-1] is str[e].
RECURSIVE SkipDigits(_, _)
SkipDigits(str, e) ==
    IF e # 0 /\ IsDigit(str[e]) THEN SkipDigits(str, e - 1) ELSE e

\* stripInternalNameSuffix without the test for the space before the digits.
StripWithoutSpaceTest(str) ==
    LET n == Len(str)
    IN  IF ~(n >= 3 /\ str[n] = "#" /\ IsDigit(str[n - 1])) THEN str
        ELSE LET e == SkipDigits(str, n - 2)
             IN  IF e = 0 THEN str ELSE SubSeq(str, 1, e - 1)

StripInternalNameSuffix(str) ==
    LET n == Len(str)
    IN  IF ~(n >= 3 /\ str[n] = "#" /\ IsDigit(str[n - 1])) THEN str
        ELSE LET e == SkipDigits(str, n - 2)
             IN  IF ~(e # 0 /\ str[e] = " ") THEN str
                 ELSE SubSeq(str, 1, e - 1)

\* snprintf(itoaBuf, sizeof(itoaBuf), "%u", n)
RECURSIVE Decimal(_)
Decimal(n) ==
    IF n < 10 THEN <<DigitChars[n + 1]>>
    ELSE Decimal(n \div 10) \o <<DigitChars[(n % 10) + 1]>>

\* deriveUniqueInternalName that builds the suffix before it increments the
\* counter.
DeriveWithStaleCounter(map, originalName) ==
    LET base == StripInternalNameSuffix(originalName)
    IN  IF base \notin DOMAIN map
        THEN [map |-> map @@ (base :> 0), name |-> base]
        ELSE [map |-> [map EXCEPT ![base] = @ + 1],
              name |-> base \o <<" ">> \o Decimal(map[base]) \o <<"#">>]

\* The map after the call and the name returned.
DeriveUniqueInternalName(map, originalName) ==
    LET base == StripInternalNameSuffix(originalName)
    IN  IF base \notin DOMAIN map
        THEN \* try_emplace inserted (base, 0)
             [map |-> map @@ (base :> 0), name |-> base]
        ELSE \* ++insertResult.first->second: the counter is an unsigned that
             \* MaxRequests calls leave far below its width.
             LET counter == map[base] + 1
             IN  [map |-> [map EXCEPT ![base] = counter],
                  name |-> base \o <<" ">> \o Decimal(counter) \o <<"#">>]

NameInit ==
    /\ internalNamesMap_ = EmptyMap
    /\ requested = << >>
    /\ returned = << >>

\* A Function is constructed with originalName.
DeriveStep(originalName) ==
    \E out \in {DeriveUniqueInternalName(internalNamesMap_, originalName)} :
        /\ internalNamesMap_' = out.map
        /\ requested' = Append(requested, originalName)
        /\ returned' = Append(returned, out.name)
        /\ UNCHANGED probe

\* ------------------------------------------------------------------------
\* Module::populateCJSModuleUseGraph and Module::getFunctionsInSegment.

Functions == {"w0", "w1", "w2", "w3"}

\* Module::cjsModules_: the wrapper function of the CJS module with index i is
\* cjsModules_[i + 1].  The modules with index 1 and 4 name the same wrapper.
cjsModules_ == <<"w0", "w1", "w2", "w3", "w1">>

\* Context::SegmentRange: first and last are indices of cjsModules_.
SegmentRanges ==
    {r \in [first : 0..(Len(cjsModules_) - 1), last : 0..(Len(cjsModules_) - 1)] :
        r.first <= r.last}

\* The uses of functions that come and go: w0 uses w1 and w2, w1 uses w2, w2
\* uses w0 and w3 uses itself.
UseEdges ==
    {<<"w0", "w1">>, <<"w1", "w2">>, <<"w0", "w2">>, <<"w2", "w0">>, <<"w3", "w3">>}

\* The cap on the number of pairs of fnUses.
MaxUses == 3

VARIABLES
    fnUses,               \* <<g, f>>: an instruction of function g is in f.getUsers()
    cjsModuleUseGraph_,   \* Module::cjsModuleUseGraph_: function -> set of functions
    populated,            \* populateCJSModuleUseGraph has run
    segment               \* the last operation, with the range and result of a query

cjsVars == <<fnUses, cjsModuleUseGraph_, populated, segment>>

\* The edges a use graph holds.
Edges(graph) == {<<g, f>> \in Functions \X Functions : g \in DOMAIN graph /\ f \in graph[g]}

\* DenseMap::operator[]: the entry of key, made empty when there is none.
WithEntry(graph, key) ==
    IF key \in DOMAIN graph THEN graph ELSE graph @@ (key :> {})

\* populateCJSModuleUseGraph with the edge from the used function to its user.
PopulateReversed(graph, uses) ==
    IF DOMAIN graph # {} THEN graph
    ELSE [f \in {e[2] : e \in uses} |-> {e[1] : e \in {d \in uses : d[2] = f}}]

\* populateCJSModuleUseGraph without the early return.
PopulateAgain(graph, uses) ==
    [g \in DOMAIN graph \cup {e[1] : e \in uses} |->
        (IF g \in DOMAIN graph THEN graph[g] ELSE {})
            \cup {e[2] : e \in {d \in uses : d[1] = g}}]

PopulateCJSModuleUseGraph(graph, uses) ==
    IF DOMAIN graph # {} THEN graph
    ELSE [g \in {e[1] : e \in uses} |-> {e[2] : e \in {d \in uses : d[1] = g}}]

\* The sequences that list the elements of S once each.
Orderings(S) ==
    {s \in [1..Cardinality(S) -> S] : \A i, j \in 1..Cardinality(S) : s[i] = s[j] => i = j}

\* SetVector::insert of the elements of seq, in order, into worklist.
RECURSIVE InsertAll(_, _)
InsertAll(worklist, seq) ==
    IF seq = << >> THEN worklist
    ELSE InsertAll(IF Head(seq) \in Range(worklist) THEN worklist
                   ELSE Append(worklist, Head(seq)),
                   Tail(seq))

\* The while loop of getFunctionsInSegment: the set of its outcomes, one for
\* every order in which the DenseSet targets may be iterated.
RECURSIVE Traverse(_, _, _)
Traverse(graph, worklist, result) ==
    IF worklist = << >> THEN {[graph |-> graph, result |-> result]}
    ELSE LET cur == worklist[Len(worklist)]
             rest == SubSeq(worklist, 1, Len(worklist) - 1)
         IN  IF cur \in result THEN Traverse(graph, rest, result)
             ELSE LET g1 == WithEntry(graph, cur)
                  IN  UNION {Traverse(g1, InsertAll(rest, order), result \cup {cur}) :
                                order \in Orderings(g1[cur])}

GetFunctionsInSegment(graph, uses, range) ==
    Traverse(PopulateCJSModuleUseGraph(graph, uses),
             InsertAll(<< >>, SubSeq(cjsModules_, range.first + 1, range.last + 1)),
             {})

CJSInit ==
    /\ fnUses = {}
    /\ cjsModuleUseGraph_ = EmptyMap
    /\ populated = FALSE
    /\ segment = [op |-> "init"]

\* An instruction of g gets f as an operand.
DoAddFunctionUse ==
    \E e \in UseEdges \ fnUses :
        /\ Cardinality(fnUses) < MaxUses
        /\ fnUses' = fnUses \cup {e}
        /\ segment' = [op |-> "addUse"]
        /\ UNCHANGED <<cjsModuleUseGraph_, populated>>

\* The last operand of an instruction of g that names f is removed.
DoRemoveFunctionUse ==
    \E e \in fnUses :
        /\ fnUses' = fnUses \ {e}
        /\ segment' = [op |-> "removeUse"]
        /\ UNCHANGED <<cjsModuleUseGraph_, populated>>

DoPopulateCJSModuleUseGraph ==
    /\ cjsModuleUseGraph_' = PopulateCJSModuleUseGraph(cjsModuleUseGraph_, fnUses)
    /\ populated' = TRUE
    /\ segment' = [op |-> "populateCJSModuleUseGraph"]
    /\ UNCHANGED fnUses

DoGetFunctionsInSegment ==
    \E range \in SegmentRanges :
        \E out \in GetFunctionsInSegment(cjsModuleUseGraph_, fnUses, range) :
            /\ cjsModuleUseGraph_' = out.graph
            /\ populated' = TRUE
            /\ segment' = [op |-> "getFunctionsInSegment", range |-> range,
                           fresh |-> ~populated, result |-> out.result]
            /\ UNCHANGED fnUses

\* ------------------------------------------------------------------------
\* Module::addGlobalProperty and Module::eraseGlobalProperty.

PropertyNames == {"x", "y"}

\* The number of GlobalObjectProperty objects one run allocates.
MaxProperties == 3
PropertyIds == 1..MaxProperties

VARIABLES
    globalPropertyMap_,   \* Module::globalPropertyMap_: name -> property
    globalPropertyList_,  \* Module::globalPropertyList_: properties in order
    property,             \* the live GlobalObjectProperty objects: name, declared
    allocated,            \* the number of objects allocated so far
    propertyCall,         \* the last call, with its arguments and result
    declaredSoFar,        \* name -> the OR of the flags passed since its creation
    returnedSoFar         \* name -> the objects returned since its creation

propVars == <<globalPropertyMap_, globalPropertyList_, property, allocated,
              propertyCall, declaredSoFar, returnedSoFar>>

\* GlobalObjectProperty's constructor.
NewGlobalObjectProperty(name, declared) == [name |-> name, declared |-> declared]

\* GlobalObjectProperty::orDeclared.
OrDeclared(prop, declared) == [prop EXCEPT !.declared = @ \/ declared]

\* The table the operators below transform.
PropertyTable ==
    [map |-> globalPropertyMap_, list |-> globalPropertyList_,
     property |-> property, allocated |-> allocated]

\* addGlobalProperty that returns an existing property as it is.
AddGlobalPropertyNoOr(t, name, declared) ==
    IF name \notin DOMAIN t.map
    THEN LET ref == t.allocated + 1
         IN  [t |-> [map |-> t.map @@ (name :> ref),
                     list |-> Append(t.list, ref),
                     property |-> t.property @@ (ref :> NewGlobalObjectProperty(name, declared)),
                     allocated |-> ref],
              ref |-> ref]
    ELSE [t |-> t, ref |-> t.map[name]]

\* The table after the call and the property returned.
AddGlobalProperty(t, name, declared) ==
    IF name \notin DOMAIN t.map
    THEN LET ref == t.allocated + 1
         IN  [t |-> [map |-> t.map @@ (name :> ref),
                     list |-> Append(t.list, ref),
                     property |-> t.property @@ (ref :> NewGlobalObjectProperty(name, declared)),
                     allocated |-> ref],
              ref |-> ref]
    ELSE LET ref == t.map[name]
         IN  [t |-> [t EXCEPT !.property[ref] = OrDeclared(@, declared)],
              ref |-> ref]

\* Module::findGlobalProperty: the property of the name, or null.
FindGlobalProperty(t, name) ==
    IF name \in DOMAIN t.map THEN t.map[name] ELSE Null

\* The function fn without key in its domain.
Without(fn, key) == [k \in DOMAIN fn \ {key} |-> fn[k]]

\* eraseGlobalProperty that leaves the list as it is.
EraseFromMapOnly(t, prop) ==
    [t EXCEPT !.map = Without(@, t.property[prop].name)]

EraseGlobalProperty(t, prop) ==
    LET t1 == [t EXCEPT !.map = Without(@, t.property[prop].name)]
    IN  IF prop \in Range(t1.list)
        THEN [t1 EXCEPT !.list = SelectSeq(@, LAMBDA q : q # prop),
                        !.property = Without(@, prop)]
        ELSE t1

PropertyInit ==
    /\ globalPropertyMap_ = EmptyMap
    /\ globalPropertyList_ = << >>
    /\ property = EmptyMap
    /\ allocated = 0
    /\ propertyCall = [op |-> "init"]
    /\ declaredSoFar = [n \in PropertyNames |-> FALSE]
    /\ returnedSoFar = [n \in PropertyNames |-> {}]

PropertyBecomes(t) ==
    /\ globalPropertyMap_' = t.map
    /\ globalPropertyList_' = t.list
    /\ property' = t.property
    /\ allocated' = t.allocated

DoAddGlobalProperty ==
    \E name \in PropertyNames, declared \in BOOLEAN :
        \E out \in {AddGlobalProperty(PropertyTable, name, declared)} :
            /\ name \in DOMAIN globalPropertyMap_ \/ allocated < MaxProperties
            /\ PropertyBecomes(out.t)
            /\ propertyCall' = [op |-> "addGlobalProperty", name |-> name,
                                declared |-> declared, ref |-> out.ref]
            /\ declaredSoFar' = [declaredSoFar EXCEPT ![name] = @ \/ declared]
            /\ returnedSoFar' = [returnedSoFar EXCEPT ![name] = @ \cup {out.ref}]

DoEraseGlobalProperty ==
    \E prop \in DOMAIN property :
        /\ PropertyBecomes(EraseGlobalProperty(PropertyTable, prop))
        /\ propertyCall' = [op |-> "eraseGlobalProperty",
                            name |-> property[prop].name, ref |-> prop]
        /\ declaredSoFar' = [declaredSoFar EXCEPT ![property[prop].name] = FALSE]
        /\ returnedSoFar' = [returnedSoFar EXCEPT ![property[prop].name] = {}]

\* ------------------------------------------------------------------------
\* Module::getLiteralNumber, getLiteralString and getLiteralBool.

\* The doubles the calls are given, each with the four 16-bit words of its
\* IEEE-754 bit pattern (most significant first).  "qnan" and "nan1" are two
\* NaNs with different payloads.
DoubleBits ==
    ("+0.0" :> <<0, 0, 0, 0>>) @@ ("-0.0" :> <<32768, 0, 0, 0>>) @@
    ("3.14" :> <<16393, 7864, 20971, 34079>>) @@
    ("qnan" :> <<32760, 0, 0, 0>>) @@ ("nan1" :> <<32760, 0, 0, 1>>)
Doubles == DOMAIN DoubleBits

\* The identifiers the calls are given.
Identifiers == {"a", "b"}

\* The number of literal requests one run makes.
MaxLiteralCalls == 3

VARIABLES
    literalNumbers,    \* Module::literalNumbers: profile -> LiteralNumber
    literalStrings,    \* Module::literalStrings: profile -> LiteralString
    literalAllocated,  \* the number of literal objects allocated with new
    literalCalls       \* the calls made so far: kind, value, object returned

litVars == <<literalNumbers, literalStrings, literalAllocated, literalCalls>>

\* LiteralNumber::Profile: the bits of the double are added to the node id.
LiteralNumberProfile(value) == DoubleBits[value]

\* LiteralString::Profile: the identifier (a uniqued pointer) is added to the
\* node id.
LiteralStringProfile(value) == value

\* The interning tables the operators below transform.
LiteralTables ==
    [numbers |-> literalNumbers, strings |-> literalStrings,
     allocated |-> literalAllocated]

\* getLiteralNumber that never finds an earlier node.
GetLiteralNumberNoLookup(t, value) ==
    LET New == t.allocated + 1
    IN  [t |-> [t EXCEPT !.numbers = (LiteralNumberProfile(value) :> New) @@ @,
                         !.allocated = New],
         ref |-> New]

\* The tables after the call and the object returned.
GetLiteralNumber(t, value) ==
    LET ID == LiteralNumberProfile(value)
    IN  IF ID \in DOMAIN t.numbers
        THEN [t |-> t, ref |-> t.numbers[ID]]
        ELSE LET New == t.allocated + 1
             IN  [t |-> [t EXCEPT !.numbers = @ @@ (ID :> New),
                                  !.allocated = New],
                  ref |-> New]

GetLiteralString(t, value) ==
    LET ID == LiteralStringProfile(value)
    IN  IF ID \in DOMAIN t.strings
        THEN [t |-> t, ref |-> t.strings[ID]]
        ELSE LET New == t.allocated + 1
             IN  [t |-> [t EXCEPT !.strings = @ @@ (ID :> New),
                                  !.allocated = New],
                  ref |-> New]

\* The two LiteralBool members of the Module.
GetLiteralBool(t, value) ==
    [t |-> t, ref |-> IF value THEN "literalTrue" ELSE "literalFalse"]

LiteralInit ==
    /\ literalNumbers = EmptyMap
    /\ literalStrings = EmptyMap
    /\ literalAllocated = 0
    /\ literalCalls = << >>

LiteralBecomes(out, kind, value) ==
    /\ Len(literalCalls) < MaxLiteralCalls
    /\ literalNumbers' = out.t.numbers
    /\ literalStrings' = out.t.strings
    /\ literalAllocated' = out.t.allocated
    /\ literalCalls' = Append(literalCalls,
                              [kind |-> kind, value |-> value, ref |-> out.ref])

DoGetLiteralNumber ==
    \E value \in Doubles :
        LiteralBecomes(GetLiteralNumber(LiteralTables, value), "number", value)

DoGetLiteralString ==
    \E value \in Identifiers :
        LiteralBecomes(GetLiteralString(LiteralTables, value), "string", value)

DoGetLiteralBool ==
    \E value \in BOOLEAN :
        LiteralBecomes(GetLiteralBool(LiteralTables, value), "bool", value)

\* ------------------------------------------------------------------------
\* The instruction list of a BasicBlock: push_back, getTerminator, and
\* Instruction::insertBefore, insertAfter, moveBefore and removeFromParent.

\* The instructions whose kind is a TerminatorInst (dyn_cast succeeds).
Terminators == {"I2", "I3"}

\* The 1-based position of x in s, or 0.
IndexOf(s, x) ==
    LET S == {i \in 1..Len(s) : s[i] = x}
    IN  IF S = {} THEN 0 ELSE MinOf(S)

\* The sequence s with x inserted before (1-based) position i.
InsertAt(s, i, x) == SubSeq(s, 1, i - 1) \o <<x>> \o SubSeq(s, i, Len(s))

\* I is in the list of the block its parent pointer names.
Linked(h, I) == I \in Range(h.InstList[h.Parent[I]])

\* I is in no list.
Unlinked(h, I) == \A b \in Blocks : I \notin Range(h.InstList[b])

BasicBlockPushBack(h, b, I) == [h EXCEPT !.InstList[b] = Append(@, I)]

\* getTerminator that looks at the first instruction.
GetTerminatorFront(h, b) ==
    IF h.InstList[b] = <<>> THEN Null
    ELSE IF Head(h.InstList[b]) \in Terminators
    THEN Head(h.InstList[b]) ELSE Null

GetTerminator(h, b) ==
    IF h.InstList[b] = <<>> THEN Null
    ELSE IF h.InstList[b][Len(h.InstList[b])] \in Terminators
    THEN h.InstList[b][Len(h.InstList[b])] ELSE Null

InsertBefore(h, I, InsertPos) ==
    LET b == h.Parent[InsertPos]
    IN  [h EXCEPT !.InstList[b] = InsertAt(@, IndexOf(@, InsertPos), I)]

InsertAfter(h, I, InsertPos) ==
    LET b == h.Parent[InsertPos]
    IN  [h EXCEPT !.InstList[b] = InsertAt(@, IndexOf(@, InsertPos) + 1, I)]

\* BasicBlock::remove(I): unlink I from the list, keeping the object.
BasicBlockRemove(h, b, I) ==
    [h EXCEPT !.InstList[b] = SelectSeq(@, LAMBDA J : J # I)]

RemoveFromParent(h, I) == BasicBlockRemove(h, h.Parent[I], I)

\* moveBefore that does not update the parent pointer.
MoveBeforeKeepParent(h, I, Later) ==
    IF I = Later THEN h
    ELSE LET h1 == BasicBlockRemove(h, h.Parent[I], I)
             b == h1.Parent[Later]
         IN  [h1 EXCEPT !.InstList[b] = InsertAt(@, IndexOf(@, Later), I)]

MoveBefore(h, I, Later) ==
    IF I = Later THEN h
    ELSE LET h1 == BasicBlockRemove(h, h.Parent[I], I)
             b == h1.Parent[Later]
             h2 == [h1 EXCEPT !.InstList[b] = InsertAt(@, IndexOf(@, Later), I)]
         IN  [h2 EXCEPT !.Parent[I] = b]

\* The heap after the constructors (the values of UseInit) and after
\* I2 = op(I1, x) and I3 = op(I1) have been given their operands.
ConstructedHeap ==
    [Operands |-> [I \in Insts |-> <<>>],
     Users |-> [v \in Values |-> <<>>],
     InstList |-> [b \in Blocks |-> IF b = "B1" THEN <<"I1", "I2">> ELSE <<"I3">>],
     Parent |-> [I \in Insts |-> IF I = "I3" THEN "B2" ELSE "B1"],
     BasicBlockList |-> [f \in Funcs |-> IF f = "F" THEN <<"B1", "B2">> ELSE << >>],
     BlockParent |-> [b \in Blocks |-> "F"],
     FunctionList |-> <<"F", "G">>,
     erased |-> {},
     destroyed |-> << >>,
     fault |-> "none"]

WiredHeap ==
    PushOperand(PushOperand(PushOperand(ConstructedHeap, "I2", "I1"),
                            "I2", "x"), "I3", "I1")

\* The callers below pass pointers the lists accept: a node that is pushed or
\* inserted is in no list, a node that is removed, erased, moved or used as a
\* position is in the list of its parent.
DoPushBack ==
    \E b \in Live(Blocks), I \in Live(Insts) :
        /\ fault = "none"
        /\ Unlinked(Heap, I)
        /\ Becomes(BasicBlockPushBack(Heap, b, I))
        /\ lastOp' = "push_back"

DoInsertBefore ==
    \E I \in Live(Insts), InsertPos \in Live(Insts) :
        /\ fault = "none"
        /\ Unlinked(Heap, I)
        /\ Linked(Heap, InsertPos)
        /\ Becomes(InsertBefore(Heap, I, InsertPos))
        /\ lastOp' = "insertBefore"

DoInsertAfter ==
    \E I \in Live(Insts), InsertPos \in Live(Insts) :
        /\ fault = "none"
        /\ Unlinked(Heap, I)
        /\ Linked(Heap, InsertPos)
        /\ Becomes(InsertAfter(Heap, I, InsertPos))
        /\ lastOp' = "insertAfter"

DoMoveBefore ==
    \E I \in Live(Insts), Later \in Live(Insts) :
        /\ fault = "none"
        /\ Linked(Heap, I)
        /\ Linked(Heap, Later)
        /\ Becomes(MoveBefore(Heap, I, Later))
        /\ lastOp' = "moveBefore"

DoRemoveFromParent ==
    \E I \in Live(Insts) :
        /\ fault = "none"
        /\ Linked(Heap, I)
        /\ Becomes(RemoveFromParent(Heap, I))
        /\ lastOp' = "removeFromParent"

DoInstructionEraseFromParent ==
    \E I \in Live(Insts) :
        /\ fault = "none"
        /\ Linked(Heap, I)
        /\ Becomes(InstructionEraseFromParent(Heap, I))
        /\ lastOp' = "Instruction::eraseFromParent"

\* ------------------------------------------------------------------------
\* Function::eraseFromParent.

\* The while loop of Function::eraseFromParent.
RECURSIVE DrainFunction(_, _, _)
DrainFunction(h, f, ndebug) ==
    IF h.fault # "none" \/ Len(h.BasicBlockList[f]) = 0 THEN h
    ELSE LET b == Head(h.BasicBlockList[f])
         IN  DrainFunction(
                 BasicBlockEraseFromParent(ReplaceAllUsesWith(h, b, Null), b, ndebug),
                 f, ndebug)

\* The function is removed from the list of its Module; FunctionList.remove
\* unlinks the node and does not delete it.
FunctionEraseFromParent(h, f, ndebug) ==
    LET h1 == DrainFunction(h, f, ndebug)
    IN  IF h1.fault # "none" THEN h1
        ELSE IF Len(h1.Users[f]) # 0 /\ ~ndebug
        THEN Fail(h1, "assert: Use list is not empty")
        ELSE [h1 EXCEPT !.FunctionList = SelectSeq(@, LAMBDA g : g # f)]

\* The blocks and functions: the values that own a list of children.
Containers == Blocks \cup Funcs

\* An instruction is given a block or a function as operand (a branch target,
\* a callee).
DoPushContainerOperand ==
    \E I \in Live(Insts), Val \in Live(Containers) :
        /\ fault = "none"
        /\ TotalSlots < MaxSlots
        /\ Becomes(PushOperand(Heap, I, Val))
        /\ lastOp' = "pushOperand"

DoFunctionEraseFromParent ==
    \E f \in Live(Funcs), ndebug \in BOOLEAN :
        /\ fault = "none"
        /\ f \in Range(FunctionList)
        /\ Becomes(FunctionEraseFromParent(Heap, f, ndebug))
        /\ lastOp' = "Function::eraseFromParent"

\* ------------------------------------------------------------------------
\* Type::print.  A Type is its bitmask_, kept as the set of the bit numbers
\* that are set.

\* The names of the kinds of Type::TypeKind in enumeration order; bit i of the
\* mask belongs to KindNames[i + 1].
KindNames ==
    <<"empty", "undefined", "null", "boolean", "string", "number",
      "object", "closure", "regexp">>

\* Type::TypeKind::LAST_TYPE, and the numbers of three of the kinds.
LAST_TYPE == Len(KindNames)
ObjectKind == IndexOf(KindNames, "object") - 1
ClosureKind == IndexOf(KindNames, "closure") - 1
RegExpKind == IndexOf(KindNames, "regexp") - 1

\* The number of kinds of each of the two types that are united.
MaxKindsPerType == 2

\* The types that are united.
TypeInputs == {t \in SUBSET (0..(LAST_TYPE - 1)) : Cardinality(t) <= MaxKindsPerType}

VARIABLES
    typeA,     \* the first type
    typeB,     \* the second type
    printed    \* what Type::print wrote for their union: a sequence of tokens

typeVars == <<typeA, typeB, printed>>

\* Type::getKindStr.
TypeGetKindStr(i) == KindNames[i + 1]

\* Type::isClosureType and Type::isRegExpType: bit tests.
IsClosureType(t) == ClosureKind \in t
IsRegExpType(t) == RegExpKind \in t

\* Type::unionTy: the OR of the two masks.
UnionTy(A, B) == A \cup B

\* Type::print that prints the separator before every name.
RECURSIVE TypePrintLeadingBar(_, _, _, _)
TypePrintLeadingBar(t, i, first, OS) ==
    IF i >= LAST_TYPE THEN OS
    ELSE IF i = ObjectKind /\ (IsClosureType(t) \/ IsRegExpType(t))
    THEN TypePrintLeadingBar(t, i + 1, first, OS)
    ELSE IF i \in t
    THEN TypePrintLeadingBar(t, i + 1, FALSE, OS \o <<"|", TypeGetKindStr(i)>>)
    ELSE TypePrintLeadingBar(t, i + 1, first, OS)

\* The loop of Type::print from bit i on: what has been written to OS.
RECURSIVE TypePrintFrom(_, _, _, _)
TypePrintFrom(t, i, first, OS) ==
    IF i >= LAST_TYPE THEN OS
    ELSE IF i = ObjectKind /\ (IsClosureType(t) \/ IsRegExpType(t))
    THEN TypePrintFrom(t, i + 1, first, OS)
    ELSE IF i \in t
    THEN TypePrintFrom(t, i + 1, FALSE,
                       OS \o (IF first THEN << >> ELSE <<"|">>) \o <<TypeGetKindStr(i)>>)
    ELSE TypePrintFrom(t, i + 1, first, OS)

TypePrint(t) == TypePrintFrom(t, 0, TRUE, << >>)

TypeInit ==
    /\ typeA = {}
    /\ typeB = {}
    /\ printed = <<"not printed">>

DoPrintUnion ==
    /\ printed = <<"not printed">>
    /\ printed' = TypePrint(UnionTy(typeA, typeB))
    /\ UNCHANGED <<typeA, typeB>>

\* ------------------------------------------------------------------------
\* The loop of Value::replaceAllUsesWith, one pass at a time.

VARIABLES
    rauw    \* the call of replaceAllUsesWith in progress: its position
            \* ("setup" before the call, "while" in the loop, "done" after
            \* it), its this and Other, and the passes made

rauwVars == <<rauw>>

RauwInit == rauw = [pc |-> "setup"]

\* The operands are set up before the call.
DoRauwSetup ==
    /\ rauw.pc = "setup"
    /\ \/ DoPushOperand
       \/ DoSetOperand
       \/ DoRemoveOperand
    /\ UNCHANGED rauw

\* if (this == Other) return;
DoRauwEnter ==
    \E this \in Producers, Other \in Producers \cup {Null} :
        /\ rauw.pc = "setup"
        /\ fault = "none"
        /\ rauw' = [pc |-> IF this = Other THEN "done" ELSE "while",
                    this |-> this, Other |-> Other, passes |-> 0]
        /\ lastOp' = "replaceAllUsesWith"
        /\ UNCHANGED <<Operands, Users, InstList, Parent, BasicBlockList,
                       BlockParent, FunctionList, erased, destroyed, fault>>

\* One pass of while (Users.size()):
\* Users[Users.size() - 1]->replaceFirstOperandWith(this, Other).
DoRauwPass ==
    /\ rauw.pc = "while"
    /\ fault = "none"
    /\ Len(Users[rauw.this]) # 0
    /\ Becomes(ReplaceFirstOperandWith(
                   Heap, Users[rauw.this][Len(Users[rauw.this])],
                   rauw.this, rauw.Other))
    /\ rauw' = [rauw EXCEPT !.passes = @ + 1]
    /\ UNCHANGED lastOp

\* The loop condition is false: the call returns.
DoRauwExit ==
    /\ rauw.pc = "while"
    /\ fault = "none"
    /\ Len(Users[rauw.this]) = 0
    /\ rauw' = [rauw EXCEPT !.pc = "done"]
    /\ UNCHANGED useVars

\* ------------------------------------------------------------------------
\* Parameter::Parameter, isThisParameter and getIndexInParamList, for the
\* parameters of one Function.

\* The names the parameters are constructed with.
ParameterNames == {"this", "a", "b"}

\* The number of Parameter objects one run constructs.
MaxParameters == 4

VARIABLES
    Parameters,       \* Function::Parameters: the parameters in order
    thisParameter,    \* Function::thisParameter: a parameter, or 0 for null
    parameterName,    \* Parameter::Name of each constructed parameter
    parameterCount    \* the number of parameters constructed so far

paramVars == <<Parameters, thisParameter, parameterName, parameterCount>>

\* The fields of the Function the operators below transform.
ParameterTable ==
    [Parameters |-> Parameters, thisParameter |-> thisParameter]

\* Function::addParameter.
AddParameter(t, A) == [t EXCEPT !.Parameters = Append(@, A)]

\* Function::setThisParameter: the function stores the parameter as its
\* this-parameter.
SetThisParameter(t, A) == [t EXCEPT !.thisParameter = A]

\* The constructor of the parameter p with the given name.
NewParameter(t, p, name) ==
    IF name = "this" THEN SetThisParameter(t, p) ELSE AddParameter(t, p)

IsThisParameter(t, p) == t.thisParameter = p

\* The index of p in the list, or "unreachable" when the scan does not find
\* it (llvm_unreachable).
GetIndexInParamList(t, p) ==
    IF IndexOf(t.Parameters, p) = 0 THEN "unreachable"
    ELSE IndexOf(t.Parameters, p) - 1

ParameterInit ==
    /\ Parameters = << >>
    /\ thisParameter = 0
    /\ parameterName = << >>
    /\ parameterCount = 0

DoNewParameter ==
    \E name \in ParameterNames :
        \E t \in {NewParameter(ParameterTable, parameterCount + 1, name)} :
            /\ parameterCount < MaxParameters
            /\ Parameters' = t.Parameters
            /\ thisParameter' = t.thisParameter
            /\ parameterName' = Append(parameterName, name)
            /\ parameterCount' = parameterCount + 1

\* ------------------------------------------------------------------------
\* The while loop of getFunctionsInSegment, one pass at a time.

VARIABLE
    walk    \* the call of getFunctionsInSegment in progress: its position,
            \* its range, its worklist and result, and, in order, the
            \* functions whose pass went beyond the result.count test

walkVars == <<walk>>

WalkInit == walk = [pc |-> "idle"]

\* One pass that does not test result.count(cur).
SegmentPassNoCount(w, graph) ==
    LET cur == w.worklist[Len(w.worklist)]
        rest == SubSeq(w.worklist, 1, Len(w.worklist) - 1)
        g1 == WithEntry(graph, cur)
    IN  {[graph |-> g1,
          walk |-> [w EXCEPT !.worklist = InsertAll(rest, order),
                             !.result = @ \cup {cur},
                             !.visited = Append(@, cur)]] :
            order \in Orderings(g1[cur])}

\* One pass of while (!worklist.empty()): the set of its outcomes, one for
\* every order in which the DenseSet targets may be iterated.
SegmentPass(w, graph) ==
    LET cur == w.worklist[Len(w.worklist)]
        rest == SubSeq(w.worklist, 1, Len(w.worklist) - 1)
        g1 == WithEntry(graph, cur)
    IN  IF cur \in w.result
        THEN {[graph |-> graph,
               walk |-> [w EXCEPT !.worklist = rest, !.skipped = @ + 1]]}
        ELSE {[graph |-> g1,
               walk |-> [w EXCEPT !.worklist = InsertAll(rest, order),
                                  !.result = @ \cup {cur},
                                  !.visited = Append(@, cur)]] :
                 order \in Orderings(g1[cur])}

\* The uses of functions change before the first call.
DoAddFunctionUseIdle ==
    /\ walk.pc = "idle"
    /\ DoAddFunctionUse
    /\ UNCHANGED walk

DoRemoveFunctionUseIdle ==
    /\ walk.pc = "idle"
    /\ DoRemoveFunctionUse
    /\ UNCHANGED walk

\* The call up to the loop: the graph is populated and the worklist holds the
\* wrappers of the range.
DoSegmentEnter ==
    \E range \in SegmentRanges :
        /\ walk.pc # "while"
        /\ cjsModuleUseGraph_' = PopulateCJSModuleUseGraph(cjsModuleUseGraph_, fnUses)
        /\ populated' = TRUE
        /\ walk' = [pc |-> "while", range |-> range,
                    worklist |-> InsertAll(<< >>, SubSeq(cjsModules_,
                                     range.first + 1, range.last + 1)),
                    result |-> {}, visited |-> << >>, skipped |-> 0]
        /\ UNCHANGED <<fnUses, segment>>

DoSegmentPass ==
    /\ walk.pc = "while"
    /\ walk.worklist # << >>
    /\ \E out \in SegmentPass(walk, cjsModuleUseGraph_) :
        /\ cjsModuleUseGraph_' = out.graph
        /\ walk' = out.walk
    /\ UNCHANGED <<fnUses, populated, segment>>

\* The worklist is empty: the call returns result.
DoSegmentExit ==
    /\ walk.pc = "while"
    /\ walk.worklist = << >>
    /\ walk' = [walk EXCEPT !.pc = "done"]
    /\ UNCHANGED <<fnUses, cjsModuleUseGraph_, populated, segment>>

\* ------------------------------------------------------------------------
\* The specifications.  Each one runs the operations of one part of the
\* program and leaves the other parts as constructed.

vars == <<useVars, nameVars, cjsVars, propVars, litVars, typeVars, rauwVars,
         paramVars, walkVars>>

Init ==
    /\ UseInit
    /\ NameInit
    /\ probe = << >>
    /\ CJSInit
    /\ PropertyInit
    /\ LiteralInit
    /\ TypeInit
    /\ RauwInit
    /\ ParameterInit
    /\ WalkInit

UseFrame ==
    UNCHANGED <<nameVars, cjsVars, propVars, litVars, typeVars, rauwVars, paramVars, walkVars>>
NameFrame ==
    UNCHANGED <<useVars, cjsVars, propVars, litVars, typeVars, rauwVars, paramVars, walkVars>>
CJSFrame ==
    UNCHANGED <<useVars, nameVars, propVars, litVars, typeVars, rauwVars, paramVars, walkVars>>
PropertyFrame ==
    UNCHANGED <<useVars, nameVars, cjsVars, litVars, typeVars, rauwVars, paramVars, walkVars>>
LiteralFrame ==
    UNCHANGED <<useVars, nameVars, cjsVars, propVars, typeVars, rauwVars, paramVars, walkVars>>
TypeFrame ==
    UNCHANGED <<useVars, nameVars, cjsVars, propVars, litVars, rauwVars, paramVars, walkVars>>
RauwFrame ==
    UNCHANGED <<nameVars, cjsVars, propVars, litVars, typeVars, paramVars, walkVars>>
SegmentFrame ==
    UNCHANGED <<useVars, nameVars, propVars, litVars, typeVars, rauwVars, paramVars>>
ParameterFrame ==
    UNCHANGED <<useVars, nameVars, cjsVars, propVars, litVars, typeVars, rauwVars, walkVars>>

\* The operand and use-list operations of Value and Instruction.
Next ==
    \/ DoPushOperand /\ UseFrame
    \/ DoSetOperand /\ UseFrame
    \/ DoRemoveOperand /\ UseFrame
    \/ DoReplaceFirstOperandWith /\ UseFrame
    \/ DoEraseOperand /\ UseFrame
    \/ DoReplaceAllUsesWith /\ UseFrame
    \/ DoRemoveAllUses /\ UseFrame

Spec == Init /\ [][Next]_vars

\* The same operations and the cascading erase of a basic block.
NextErase ==
    \/ DoPushOperand /\ UseFrame
    \/ DoSetOperand /\ UseFrame
    \/ DoRemoveOperand /\ UseFrame
    \/ DoReplaceFirstOperandWith /\ UseFrame
    \/ DoEraseOperand /\ UseFrame
    \/ DoReplaceAllUsesWith /\ UseFrame
    \/ DoRemoveAllUses /\ UseFrame
    \/ DoBasicBlockEraseFromParent /\ UseFrame

SpecErase == Init /\ [][NextErase]_vars

\* Functions are constructed with names of NameInputs.
DoDeriveUniqueInternalName ==
    \E originalName \in NameInputs :
        /\ Len(requested) < MaxRequests
        /\ DeriveStep(originalName)

NextNames == DoDeriveUniqueInternalName /\ NameFrame

SpecNames == Init /\ [][NextNames]_vars

\* One name of BoundedNames is requested, before or after a request for "f"
\* or alone.
InitStrip ==
    /\ UseInit
    /\ NameInit
    /\ probe \in BoundedNames
    /\ CJSInit
    /\ PropertyInit
    /\ LiteralInit
    /\ TypeInit
    /\ RauwInit
    /\ ParameterInit
    /\ WalkInit

DoDeriveFirst ==
    /\ requested = << >>
    /\ DeriveStep(<<"f">>)

DoDeriveProbe ==
    /\ probe \notin Range(requested)
    /\ DeriveStep(probe)

NextStrip ==
    \/ DoDeriveFirst /\ NameFrame
    \/ DoDeriveProbe /\ NameFrame

SpecStrip == InitStrip /\ [][NextStrip]_vars

\* Uses of functions come and go between the queries of the use graph.
NextCJS ==
    \/ DoAddFunctionUse /\ CJSFrame
    \/ DoRemoveFunctionUse /\ CJSFrame
    \/ DoPopulateCJSModuleUseGraph /\ CJSFrame
    \/ DoGetFunctionsInSegment /\ CJSFrame

SpecCJS == Init /\ [][NextCJS]_vars

NextProperties ==
    \/ DoAddGlobalProperty /\ PropertyFrame
    \/ DoEraseGlobalProperty /\ PropertyFrame

SpecProperties == Init /\ [][NextProperties]_vars

\* Literals are requested of one Module.
NextLiterals ==
    \/ DoGetLiteralNumber /\ LiteralFrame
    \/ DoGetLiteralString /\ LiteralFrame
    \/ DoGetLiteralBool /\ LiteralFrame

SpecLiterals == Init /\ [][NextLiterals]_vars

\* I2 = op(I1, x) and I3 = op(I1) have been built; instructions are then
\* moved between and within the blocks.
InitLists ==
    /\ Operands = WiredHeap.Operands
    /\ Users = WiredHeap.Users
    /\ InstList = WiredHeap.InstList
    /\ Parent = WiredHeap.Parent
    /\ BasicBlockList = WiredHeap.BasicBlockList
    /\ BlockParent = WiredHeap.BlockParent
    /\ FunctionList = WiredHeap.FunctionList
    /\ erased = WiredHeap.erased
    /\ destroyed = WiredHeap.destroyed
    /\ fault = WiredHeap.fault
    /\ lastOp = "init"
    /\ NameInit
    /\ probe = << >>
    /\ CJSInit
    /\ PropertyInit
    /\ LiteralInit
    /\ TypeInit
    /\ RauwInit
    /\ ParameterInit
    /\ WalkInit

NextLists ==
    \/ DoPushBack /\ UseFrame
    \/ DoInsertBefore /\ UseFrame
    \/ DoInsertAfter /\ UseFrame
    \/ DoMoveBefore /\ UseFrame
    \/ DoRemoveFromParent /\ UseFrame
    \/ DoInstructionEraseFromParent /\ UseFrame

SpecLists == InitLists /\ [][NextLists]_vars

\* Both blocks belong to F, or B1 to F and B2 to G; instructions are given
\* operands, and blocks and functions are erased.
InitCascade ==
    /\ Operands = [I \in Insts |-> <<>>]
    /\ Users = [v \in Values |-> <<>>]
    /\ InstList = [b \in Blocks |-> IF b = "B1" THEN <<"I1", "I2">> ELSE <<"I3">>]
    /\ Parent = [I \in Insts |-> IF I = "I3" THEN "B2" ELSE "B1"]
    /\ \E g \in Funcs :
           /\ BlockParent = [b \in Blocks |-> IF b = "B2" THEN g ELSE "F"]
           /\ BasicBlockList =
                  [f \in Funcs |->
                      SelectSeq(<<"B1", "B2">>,
                                LAMBDA b : (IF b = "B2" THEN g ELSE "F") = f)]
    /\ FunctionList = <<"F", "G">>
    /\ erased = {}
    /\ destroyed = << >>
    /\ fault = "none"
    /\ lastOp = "init"
    /\ NameInit
    /\ probe = << >>
    /\ CJSInit
    /\ PropertyInit
    /\ LiteralInit
    /\ TypeInit
    /\ RauwInit
    /\ ParameterInit
    /\ WalkInit

NextCascade ==
    \/ DoPushOperand /\ UseFrame
    \/ DoPushContainerOperand /\ UseFrame
    \/ DoBasicBlockEraseFromParent /\ UseFrame
    \/ DoFunctionEraseFromParent /\ UseFrame

SpecCascade == InitCascade /\ [][NextCascade]_vars

\* Two types of TypeInputs are united and the union is printed.
InitTypes ==
    /\ UseInit
    /\ NameInit
    /\ probe = << >>
    /\ CJSInit
    /\ PropertyInit
    /\ LiteralInit
    /\ typeA \in TypeInputs
    /\ typeB \in TypeInputs
    /\ printed = <<"not printed">>
    /\ RauwInit
    /\ ParameterInit
    /\ WalkInit

NextTypes == DoPrintUnion /\ TypeFrame

SpecTypes == InitTypes /\ [][NextTypes]_vars

\* Operands are set up, replaceAllUsesWith is called once and its loop runs
\* pass by pass.  The call runs on one thread, which keeps executing the loop
\* until the call returns.
NextRauw ==
    \/ DoRauwSetup /\ RauwFrame
    \/ DoRauwEnter /\ RauwFrame
    \/ DoRauwPass /\ RauwFrame
    \/ DoRauwExit /\ RauwFrame

SpecRauw ==
    /\ Init
    /\ [][NextRauw]_vars
    /\ WF_vars(DoRauwPass /\ RauwFrame)
    /\ WF_vars(DoRauwExit /\ RauwFrame)

\* Parameters are constructed for one Function.
NextParameters == DoNewParameter /\ ParameterFrame

SpecParameters == Init /\ [][NextParameters]_vars

\* getFunctionsInSegment one pass at a time; the call runs on one thread, so
\* a pass or the return that is possible is taken.
NextSegment ==
    \/ DoAddFunctionUseIdle /\ SegmentFrame
    \/ DoRemoveFunctionUseIdle /\ SegmentFrame
    \/ DoSegmentEnter /\ SegmentFrame
    \/ DoSegmentPass /\ SegmentFrame
    \/ DoSegmentExit /\ SegmentFrame

SpecSegment ==
    /\ Init
    /\ [][NextSegment]_vars
    /\ WF_vars(DoSegmentPass /\ SegmentFrame)
    /\ WF_vars(DoSegmentExit /\ SegmentFrame)

\* ------------------------------------------------------------------------
\* Use-def claims.

\* The number of occurrences of x in the sequence s.
Count(s, x) == Cardinality({i \in 1..Len(s) : s[i] = x})

\* Every non-null operand slot names a position of its producer's Users that
\* holds the instruction.
OperandsRegistered ==
    \A I \in Insts : \A k \in 1..Len(Operands[I]) :
        LET u == Operands[I][k]
        IN  u.first # Null =>
                /\ u.second < Len(Users[u.first])
                /\ Users[u.first][u.second + 1] = I

\* Every position of every Users list is named by exactly one operand slot of
\* the instruction it holds.
UsersBacked ==
    \A p \in Values : \A j \in 1..Len(Users[p]) :
        Cardinality({k \in 1..Len(Operands[Users[p][j]]) :
                        Operands[Users[p][j]][k] = MkUse(p, j - 1)}) = 1

\* C1: after any sequence of pushOperand, setOperand, removeOperand,
\* replaceFirstOperandWith, eraseOperand, replaceAllUsesWith and removeAllUses,
\* (1) every non-null operand slot (p, j) of an instruction I has
\* p.users[j] = I, and (2) every p.users[j] = I is named by exactly one
\* operand slot of I.
C1_BidirectionalConsistency == OperandsRegistered /\ UsersBacked

\* A producer had three users and the first was removed: swap-with-last moved
\* I3 to the front and its operand was patched.
C1_Witness ==
    /\ lastOp = "removeOperand"
    /\ Users["x"] = <<"I3", "I2">>
    /\ Operands["I3"] = <<MkUse("x", 0)>>
    /\ Operands["I2"] = <<MkUse("x", 1)>>
    /\ Operands["I1"] = <<>>

\* C2: v.replaceAllUsesWith(other) with other # v (other may be null) leaves
\* the user list of v empty and makes every operand slot that referenced v
\* reference other at the same position, every other slot keeping its
\* producer; with other = v it changes nothing.  Stated of the call made in
\* any reachable state, for every v and other.
C2_ReplaceAllUsesWith ==
    \A v \in Producers : \A other \in Producers \cup {Null} :
        LET h == ReplaceAllUsesWith(Heap, v, other)
        IN  IF other = v
            THEN h = Heap
            ELSE /\ h.fault = "none"
                 /\ h.Users[v] = <<>>
                 /\ \A I \in Insts :
                        /\ Len(h.Operands[I]) = Len(Operands[I])
                        /\ \A k \in 1..Len(Operands[I]) :
                               h.Operands[I][k].first =
                                   IF Operands[I][k].first = v
                                   THEN other
                                   ELSE Operands[I][k].first

\* I2 was mul(I1, I1) and I1.replaceAllUsesWith(x) made it mul(x, x).
C2_Witness ==
    /\ lastOp = "replaceAllUsesWith"
    /\ Operands["I2"] = <<MkUse("x", 0), MkUse("x", 1)>>
    /\ Users["x"] = <<"I2", "I2">>
    /\ Users["I1"] = <<>>

\* C3: when U.setOperand(null, k) clears a slot that held (P, j), P.users
\* afterwards is the old multiset minus one occurrence of U; when j was not the
\* last position, the instruction M that was last is at position j and its
\* operand slot that held (P, lastIndex) holds (P, j); the call does not end
\* in the "Can't find user in operand list" failure (nor in any other), also
\* when M is U itself.  Stated of the call made in any reachable state.
C3_RemoveUseSwapWithLast ==
    /\ fault = "none"
    /\ \A U \in Insts : \A k \in 0..(Len(Operands[U]) - 1) :
           Operands[U][k + 1].first # Null =>
               LET h == SetOperand(Heap, U, Null, k)
                   P == Operands[U][k + 1].first
                   j == Operands[U][k + 1].second
                   n == Len(Users[P])
                   M == Users[P][n]
               IN  /\ h.fault = "none"
                   /\ Len(h.Users[P]) = n - 1
                   /\ \A J \in Insts :
                          Count(h.Users[P], J) =
                              Count(Users[P], J) - (IF J = U THEN 1 ELSE 0)
                   /\ j # n - 1 =>
                          /\ h.Users[P][j + 1] = M
                          /\ \E i \in 1..Len(Operands[M]) :
                                 /\ Operands[M][i] = MkUse(P, n - 1)
                                 /\ h.Operands[M][i] = MkUse(P, j)

\* x.users was [I1, I2, I3] and I2.setOperand(null, 0) left [I1, I3], with
\* I3's operand patched from (x, 2) to (x, 1).
C3_Witness ==
    /\ lastOp = "setOperand"
    /\ Users["x"] = <<"I1", "I3">>
    /\ Operands["I1"] = <<MkUse("x", 0)>>
    /\ Operands["I2"] = <<NullUse>>
    /\ Operands["I3"] = <<MkUse("x", 1)>>

\* C4 as claimed: after bb.eraseFromParent() no instruction outside bb holds a
\* non-null operand whose producer is an erased instruction of bb or bb itself.
C4_NoOperandNamesErased ==
    \A I \in Insts \ erased : \A k \in 1..Len(Operands[I]) :
        Operands[I][k].first \notin erased

\* C4 as amended: after bb.eraseFromParent() no instruction outside bb holds a
\* non-null operand whose producer is an erased instruction of bb; and bb
\* itself is the producer of an operand only if it was destroyed with users
\* (the call asserts that bb has none and does not clear them).
C4_NoOperandNamesErasedInst ==
    \A I \in Insts \ erased : \A k \in 1..Len(Operands[I]) :
        LET p == Operands[I][k].first
        IN  p \in erased => (p \in Blocks /\ Users[p] # <<>>)

\* B1 was erased in a build without assertions while I3 referenced B1 and an
\* instruction of B1: the reference to the instruction is null, the one to the
\* block is left.
C4_Witness ==
    /\ lastOp = "BasicBlock::eraseFromParent"
    /\ fault = "none"
    /\ erased = {"B1", "I1", "I2"}
    /\ Operands["I3"] = <<MkUse("B1", 0), NullUse>>
    /\ Users["B1"] = <<"I3">>


\* ------------------------------------------------------------------------
\* Internal-name claims.

\* C5: no two calls of deriveUniqueInternalName on one Module return the same
\* name.
C5_DerivedNamesAreUnique ==
    \A i, j \in 1..Len(returned) : returned[i] = returned[j] => i = j

\* The number of requests before the i-th that strip to the same base.
EarlierSameBase(i) ==
    Cardinality({j \in 1..(i - 1) :
        StripInternalNameSuffix(requested[j]) = StripInternalNameSuffix(requested[i])})

\* C6: the first request that strips to a base b returns b, and the n-th later
\* request that strips to b returns b, a space, the decimal digits of n and
\* '#'.
C6_CounterSuffix ==
    \A i \in 1..Len(requested) :
        LET b == StripInternalNameSuffix(requested[i])
            n == EarlierSameBase(i)
        IN  returned[i] = IF n = 0 THEN b
                          ELSE b \o <<" ">> \o Decimal(n) \o <<"#">>

\* "f", "f", "f 1#", "f" returned "f", "f 1#", "f 2#", "f 3#".
C6_Witness ==
    /\ requested = << <<"f">>, <<"f">>, <<"f", " ", "1", "#">>, <<"f">> >>
    /\ returned = << <<"f">>, <<"f", " ", "1", "#">>, <<"f", " ", "2", "#">>,
                     <<"f", " ", "3", "#">> >>

\* The name s ends with a space, d decimal digits (d >= 1) and '#'.
HasSuffix(s, d) ==
    /\ d >= 1
    /\ Len(s) >= d + 2
    /\ s[Len(s)] = "#"
    /\ \A i \in (Len(s) - d)..(Len(s) - 1) : s[i] \in Range(DigitChars)
    /\ s[Len(s) - d - 1] = " "

\* The name s without its last " <digits>#" tail, s itself when it has none.
WithoutSuffix(s) ==
    IF \E d \in 1..Len(s) : HasSuffix(s, d)
    THEN SubSeq(s, 1, Len(s) - (CHOOSE d \in 1..Len(s) : HasSuffix(s, d)) - 2)
    ELSE s

\* C7: stripping removes the last " <digits>#" tail of a name that has one
\* and returns every other name unchanged, one tail per call; a request whose
\* stripped name was not requested before returns the stripped name.
C7_StripSuffix ==
    /\ StripInternalNameSuffix(probe) = WithoutSuffix(probe)
    /\ \A i \in 1..Len(requested) :
           (\A j \in 1..(i - 1) :
                WithoutSuffix(requested[j]) # WithoutSuffix(requested[i]))
               => returned[i] = WithoutSuffix(requested[i])

\* "f 3#" was requested of a Module that had no "f" and "f" was returned.
C7_Witness ==
    /\ probe = <<"f", " ", "3", "#">>
    /\ requested = <<probe>>
    /\ returned = << <<"f">> >>

\* ------------------------------------------------------------------------
\* CJS use-graph claims.

\* The functions reachable from S along the pairs of fnUses.
RECURSIVE Reachable(_)
Reachable(S) ==
    LET T == S \cup {e[2] : e \in {d \in fnUses : d[1] \in S}}
    IN  IF T = S THEN S ELSE Reachable(T)

Wrappers(range) == {cjsModules_[i + 1] : i \in range.first..range.last}

\* C8: the first query of a Module returns exactly the functions reachable
\* from the wrappers of the range along the edges "function with a user
\* instruction of f -> f", in whatever order the targets are visited.
C8_SegmentIsReachableSet ==
    (segment.op = "getFunctionsInSegment" /\ segment.fresh)
        => segment.result = Reachable(Wrappers(segment.range))

\* w0 uses w1 and w1 uses w2: the range [0, 0] gave {w0, w1, w2}.
C8_Witness ==
    /\ fnUses = {<<"w0", "w1">>, <<"w1", "w2">>}
    /\ segment = [op |-> "getFunctionsInSegment",
                  range |-> [first |-> 0, last |-> 0],
                  fresh |-> TRUE, result |-> {"w0", "w1", "w2"}]

\* C9 as claimed: once populateCJSModuleUseGraph has run, no later call adds
\* or recomputes use edges.
C9_EdgesFixedOncePopulated ==
    [][populated => Edges(cjsModuleUseGraph_') = Edges(cjsModuleUseGraph_)]_vars

\* C9 as amended: once the use graph is non-empty, no later call adds or
\* recomputes use edges.
C9_EdgesFixedOnceNonEmpty ==
    [][DOMAIN cjsModuleUseGraph_ # {}
        => Edges(cjsModuleUseGraph_') = Edges(cjsModuleUseGraph_)]_vars

\* populateCJSModuleUseGraph ran on a non-empty graph that the uses of the
\* functions no longer match, and left it as it was.
C9_Witness ==
    /\ segment.op = "populateCJSModuleUseGraph"
    /\ DOMAIN cjsModuleUseGraph_ # {}
    /\ Edges(cjsModuleUseGraph_) # fnUses

\* ------------------------------------------------------------------------
\* Global-property claims.

\* C10: while a name is not erased, every addGlobalProperty of it returns the
\* same object, and the object's declared flag is the OR of all the flags
\* passed, so a later call with declared = false does not clear it.
C10_DeclaredIsMonotonic ==
    \A name \in PropertyNames :
        IF name \in DOMAIN globalPropertyMap_
        THEN /\ returnedSoFar[name] = {globalPropertyMap_[name]}
             /\ property[globalPropertyMap_[name]].declared = declaredSoFar[name]
        ELSE returnedSoFar[name] = {}

\* The last call passed declared = false for a property that is declared.
C10_Witness ==
    /\ propertyCall.op = "addGlobalProperty"
    /\ ~propertyCall.declared
    /\ property[propertyCall.ref].declared

\* C11: after any sequence of addGlobalProperty and eraseGlobalProperty (of
\* live properties of the Module), the map and the list hold the same
\* properties, each once, the list in order of creation, every property under
\* its own name; after eraseGlobalProperty(p), findGlobalProperty of p's name
\* is null and p is in neither structure.
C11_MapAndListAgree ==
    /\ Range(globalPropertyList_) = {globalPropertyMap_[n] : n \in DOMAIN globalPropertyMap_}
    /\ \A n1, n2 \in DOMAIN globalPropertyMap_ :
           globalPropertyMap_[n1] = globalPropertyMap_[n2] => n1 = n2
    /\ \A i, j \in 1..Len(globalPropertyList_) :
           i < j => globalPropertyList_[i] < globalPropertyList_[j]
    /\ \A n \in DOMAIN globalPropertyMap_ :
           /\ globalPropertyMap_[n] \in DOMAIN property
           /\ property[globalPropertyMap_[n]].name = n
    /\ propertyCall.op = "eraseGlobalProperty" =>
           /\ FindGlobalProperty(PropertyTable, propertyCall.name) = Null
           /\ propertyCall.ref \notin Range(globalPropertyList_)
           /\ \A n \in DOMAIN globalPropertyMap_ :
                  globalPropertyMap_[n] # propertyCall.ref

\* x and y were added and x was erased: y alone is left in both structures.
C11_Witness ==
    /\ propertyCall = [op |-> "eraseGlobalProperty", name |-> "x", ref |-> 1]
    /\ globalPropertyList_ = <<2>>
    /\ globalPropertyMap_ = ("y" :> 2)

\* ------------------------------------------------------------------------
\* Literal claims.

\* C12: of any two getLiteralNumber calls the objects are the same iff the
\* doubles have the same bit pattern, of any two getLiteralString calls iff the
\* identifiers are the same, and getLiteralBool(true) and getLiteralBool(false)
\* each always return their one object, the two being distinct.
C12_InterningIsCanonical ==
    \A i, j \in 1..Len(literalCalls) :
        LET a == literalCalls[i]
            b == literalCalls[j]
        IN  /\ (a.kind = "number" /\ b.kind = "number") =>
                   ((a.ref = b.ref) <=> (DoubleBits[a.value] = DoubleBits[b.value]))
            /\ (a.kind = "string" /\ b.kind = "string") =>
                   ((a.ref = b.ref) <=> (a.value = b.value))
            /\ (a.kind = "bool" /\ b.kind = "bool") =>
                   ((a.ref = b.ref) <=> (a.value = b.value))

\* -0.0, +0.0 and -0.0 again: two objects, the third call returning the first.
C12_Witness ==
    /\ Len(literalCalls) = 3
    /\ literalCalls[1] = [kind |-> "number", value |-> "-0.0", ref |-> 1]
    /\ literalCalls[2] = [kind |-> "number", value |-> "+0.0", ref |-> 2]
    /\ literalCalls[3] = [kind |-> "number", value |-> "-0.0", ref |-> 1]

\* ------------------------------------------------------------------------
\* Instruction-list claims.

\* In the heap h every live block that holds a terminator holds exactly one,
\* as its last instruction, and getTerminator returns it; for a block without
\* terminator getTerminator returns null.
TerminatorLast(h) ==
    \A b \in Blocks \ h.erased :
        LET T == {i \in 1..Len(h.InstList[b]) : h.InstList[b][i] \in Terminators}
        IN  IF T # {}
            THEN /\ T = {Len(h.InstList[b])}
                 /\ GetTerminator(h, b) = h.InstList[b][Len(h.InstList[b])]
            ELSE GetTerminator(h, b) = Null

LogValues(log) == [i \in 1..Len(log) |-> log[i].value]

\* The instructions of the block b of the heap h in list order, then b.
BlockOrder(h, b) == Append(h.InstList[b], b)

\* The same for each block of the function f in list order.
RECURSIVE BlocksOrder(_, _)
BlocksOrder(h, bs) ==
    IF bs = << >> THEN << >>
    ELSE BlockOrder(h, Head(bs)) \o BlocksOrder(h, Tail(bs))

\* C14: BasicBlock::eraseFromParent and Function::eraseFromParent, called in
\* any reachable state in a build with assertions, destroy the children in
\* list order from the head, each child having no user left when it is
\* destroyed, and the assertion that the container has no users holds; and a
\* block or function that has been erased from its parent has been destroyed,
\* not merely unlinked.
C14_CascadingErase ==
    /\ \A b \in Live(Blocks) :
           LET h == BasicBlockEraseFromParent(Heap, b, FALSE)
           IN  /\ h.fault = "none"
               /\ LogValues(h.destroyed) = BlockOrder(Heap, b)
               /\ \A i \in 1..Len(h.destroyed) : h.destroyed[i].users = << >>
    /\ \A f \in Live(Funcs) :
           f \in Range(FunctionList) =>
               LET h == FunctionEraseFromParent(Heap, f, FALSE)
               IN  /\ h.fault = "none"
                   /\ h.Users[f] = << >>
                   /\ \A i \in 1..Len(h.destroyed) : h.destroyed[i].users = << >>
                   /\ \E rest \in {<< >>, <<f>>} :
                          LogValues(h.destroyed) =
                              BlocksOrder(Heap, BasicBlockList[f]) \o rest
    /\ \A b \in Blocks : b \notin Range(BasicBlockList[BlockParent[b]]) => b \in erased
    /\ \A f \in Funcs : f \notin Range(FunctionList) => f \in erased

\* ------------------------------------------------------------------------
\* Type claims.

\* The names of the kinds numbered i and above of the set S, in enumeration
\* order, with "|" between them.
RECURSIVE JoinedNames(_, _)
JoinedNames(S, i) ==
    IF i >= LAST_TYPE THEN << >>
    ELSE IF i \in S
    THEN IF \E j \in S : j > i
         THEN <<KindNames[i + 1], "|">> \o JoinedNames(S, i + 1)
         ELSE <<KindNames[i + 1]>>
    ELSE JoinedNames(S, i + 1)

\* C15 as claimed: the printed form of the union of A and B lists exactly the
\* names of the kinds whose bits are set in the union, each once, separated by
\* "|", in enumeration order.
C15_PrintListsTheUnion ==
    printed # <<"not printed">> =>
        printed = JoinedNames(UnionTy(typeA, typeB), 0)

\* C15 as amended: the same, except that the name of the Object kind is left
\* out when the union is a closure or a regexp type.
C15_PrintListsTheUnionButObject ==
    printed # <<"not printed">> =>
        LET U == UnionTy(typeA, typeB)
        IN  printed = JoinedNames(
                IF IsClosureType(U) \/ IsRegExpType(U) THEN U \ {ObjectKind} ELSE U, 0)

\* object|number united with closure printed as number|closure.
C15_Witness ==
    /\ typeA = {IndexOf(KindNames, "number") - 1, ObjectKind}
    /\ typeB = {ClosureKind}
    /\ printed = <<"number", "|", "closure">>

\* ------------------------------------------------------------------------
\* Termination of replaceAllUsesWith.

\* C16: every pass of the loop of replaceAllUsesWith(Other), Other # this,
\* reduces the size of this.users by exactly one and does not end in the
\* "Can't find operand" failure (nor in any other), and the call returns.
C16_RauwTerminates ==
    /\ [][(rauw.pc = "while" /\ rauw'.pc = "while") =>
             /\ Len(Users'[rauw.this]) = Len(Users[rauw.this]) - 1
             /\ fault' = "none"]_vars
    /\ (rauw.pc = "while") ~> (rauw.pc = "done")

\* I2 referenced I1 in two slots and I3 in one: I1.replaceAllUsesWith(x)
\* returned after three passes.
C16_Witness ==
    /\ rauw = [pc |-> "done", this |-> "I1", Other |-> "x", passes |-> 3]
    /\ Operands["I2"] = <<MkUse("x", 1), MkUse("x", 2)>>
    /\ Operands["I3"] = <<MkUse("x", 0)>>
    /\ Users["I1"] = << >>

\* ------------------------------------------------------------------------
\* Frame claims of the operand operations.

\* The producers of the slots of an operand list, in slot order.
ProducersOf(ops) == [k \in 1..Len(ops) |-> ops[k].first]

\* The sequence s without the elements that are in the set S.
Dropping(s, S) == SelectSeq(s, LAMBDA p : p \notin S)

\* C17 as claimed: I.eraseOperand(v) and v.removeAllUses(), called in any
\* reachable state, end without failure, leave v without a user entry for the
\* affected instructions, and remove from each of them exactly the slots that
\* referenced v, every other slot (also a null one) keeping its producer and
\* its relative order.
C17_EraseRemovesOnlyUsesOfValue ==
    /\ \A I \in Insts, v \in Producers :
           LET h == EraseOperand(Heap, I, v)
           IN  /\ h.fault = "none"
               /\ I \notin Range(h.Users[v])
               /\ \A J \in Insts :
                      ProducersOf(h.Operands[J]) =
                          IF J = I THEN Dropping(ProducersOf(Operands[J]), {v})
                          ELSE ProducersOf(Operands[J])
    /\ \A v \in Producers :
           LET h == RemoveAllUses(Heap, v)
           IN  /\ h.fault = "none"
               /\ h.Users[v] = << >>
               /\ \A J \in Insts :
                      ProducersOf(h.Operands[J]) =
                          Dropping(ProducersOf(Operands[J]), {v})

\* C17 as amended: the same, except that an affected instruction (the one
\* eraseOperand is called on, every user of v for removeAllUses) also loses
\* every slot that was null.
C17_EraseRemovesUsesOfValueAndNulls ==
    /\ \A I \in Insts, v \in Producers :
           LET h == EraseOperand(Heap, I, v)
           IN  /\ h.fault = "none"
               /\ I \notin Range(h.Users[v])
               /\ \A J \in Insts :
                      ProducersOf(h.Operands[J]) =
                          IF J = I THEN Dropping(ProducersOf(Operands[J]), {v, Null})
                          ELSE ProducersOf(Operands[J])
    /\ \A v \in Producers :
           LET h == RemoveAllUses(Heap, v)
           IN  /\ h.fault = "none"
               /\ h.Users[v] = << >>
               /\ \A J \in Insts :
                      ProducersOf(h.Operands[J]) =
                          IF J \in Range(Users[v])
                          THEN Dropping(ProducersOf(Operands[J]), {v, Null})
                          ELSE ProducersOf(Operands[J])

\* eraseOperand left I2 with the one operand I1 and x without users.
C17_Witness ==
    /\ lastOp = "eraseOperand"
    /\ Operands["I2"] = <<MkUse("I1", 0)>>
    /\ Users["x"] = << >>
    /\ Users["I1"] = <<"I2">>

\* C18: I.setOperand(v, k), called in any reachable state: when slot k holds v
\* nothing changes; otherwise slot k's producer becomes v, the old producer's
\* users lose one occurrence of I, v's users gain one, the users of every other
\* value stay the same, no operand count changes, no other slot changes its
\* producer, and at most one other slot has its stored index changed.
C18_SetOperandIsLocal ==
    \A I \in Insts : \A k \in 0..(Len(Operands[I]) - 1) :
        \A v \in Producers \cup {Null} :
            LET h == SetOperand(Heap, I, v, k)
                old == Operands[I][k + 1].first
            IN  IF old = v THEN h = Heap
                ELSE /\ h.fault = "none"
                     /\ h.Operands[I][k + 1].first = v
                     /\ \A p \in Values : \A J \in Insts :
                            Count(h.Users[p], J) =
                                Count(Users[p], J)
                                - (IF p = old /\ J = I THEN 1 ELSE 0)
                                + (IF p = v /\ J = I THEN 1 ELSE 0)
                     /\ \A J \in Insts :
                            /\ Len(h.Operands[J]) = Len(Operands[J])
                            /\ \A i \in 1..Len(Operands[J]) :
                                   (J # I \/ i # k + 1) =>
                                       h.Operands[J][i].first = Operands[J][i].first
                     /\ Cardinality({<<J, i>> \in Insts \X (1..MaxSlots + 1) :
                            /\ i <= Len(Operands[J])
                            /\ (J # I \/ i # k + 1)
                            /\ h.Operands[J][i] # Operands[J][i]}) <= 1

\* x.users was [I1, I2, I3] and I2.setOperand(I3, 0) made it [I1, I3], the
\* slot of I3 being patched from (x, 2) to (x, 1).
C18_Witness ==
    /\ lastOp = "setOperand"
    /\ Users["x"] = <<"I1", "I3">>
    /\ Users["I3"] = <<"I2">>
    /\ Operands["I1"] = <<MkUse("x", 0)>>
    /\ Operands["I2"] = <<MkUse("I3", 0)>>
    /\ Operands["I3"] = <<MkUse("x", 1)>>

\* ------------------------------------------------------------------------
\* moveBefore.

\* The number of lists of the heap h that hold I.
ListsHolding(h, I) == Cardinality({b \in Blocks : I \in Range(h.InstList[b])})

\* C19: I.moveBefore(L), called in any reachable state in which the program
\* is running, on instructions that are in the lists of their parents, with I # L leaves every use list and
\* every operand slot unchanged, takes I out of its old block, puts it right
\* before L in L's block, keeps the order of all other instructions, and makes
\* L's block the parent of I, so that I is in exactly one list, the one of
\* its parent; with I = L it changes nothing.
C19_MoveBeforeIsLocal ==
    \A I \in Live(Insts), L \in Live(Insts) :
        (fault = "none" /\ Linked(Heap, I) /\ Linked(Heap, L)) =>
            LET h == MoveBefore(Heap, I, L)
                b == Parent[L]
            IN  IF I = L THEN h = Heap
                ELSE /\ h.fault = "none"
                     /\ h.Users = Users
                     /\ h.Operands = Operands
                     /\ h.Parent = [Parent EXCEPT ![I] = b]
                     /\ \A c \in Blocks :
                            Dropping(h.InstList[c], {I}) = Dropping(InstList[c], {I})
                     /\ IndexOf(h.InstList[b], I) > 0
                     /\ h.InstList[b][IndexOf(h.InstList[b], I) + 1] = L
                     /\ ListsHolding(h, I) = 1
                     /\ Count(h.InstList[b], I) = 1
                     /\ h.erased = erased

\* I3 of B2 was moved before I2 of B1.
C19_Witness ==
    /\ lastOp = "moveBefore"
    /\ InstList = [b \in Blocks |-> IF b = "B1" THEN <<"I1", "I3", "I2">> ELSE << >>]
    /\ Parent["I3"] = "B1"
    /\ Operands["I3"] = <<MkUse("I1", 1)>>

\* ------------------------------------------------------------------------
\* Parameter claims.

\* The number of parameters constructed before p whose name is not "this".
ListedBefore(p) ==
    Cardinality({q \in 1..(p - 1) : parameterName[q] # "this"})

\* C20: after any sequence of Parameter constructions on one Function, every
\* parameter named "this" is the stored this-parameter and is not in the
\* list, and every other parameter is in the list exactly once, at the index
\* of its construction order, and is not the this-parameter.
C20_ParameterOwnedOnce ==
    \A p \in 1..parameterCount :
        IF parameterName[p] = "this"
        THEN /\ IsThisParameter(ParameterTable, p)
             /\ p \notin Range(Parameters)
        ELSE /\ ~IsThisParameter(ParameterTable, p)
             /\ Count(Parameters, p) = 1
             /\ GetIndexInParamList(ParameterTable, p) = ListedBefore(p)

\* ------------------------------------------------------------------------
\* User-count claims.

\* The operand slots, over all instructions, whose producer is v.
SlotsReferencing(v) ==
    {s \in Insts \X (1..MaxSlots) :
        /\ s[2] <= Len(Operands[s[1]])
        /\ Operands[s[1]][s[2]].first = v}

\* C21: in every reachable state getNumUsers() of a value is the number of
\* operand slots, over all instructions and with multiplicity, whose producer
\* is the value; hasOneUser() is true iff exactly one slot references the
\* value and hasUsers() is false iff no slot does.
C21_NumUsersCountsSlots ==
    \A v \in Values :
        /\ GetNumUsers(Heap, v) = Cardinality(SlotsReferencing(v))
        /\ HasOneUser(Heap, v) <=> Cardinality(SlotsReferencing(v)) = 1
        /\ ~HasUsers(Heap, v) <=> SlotsReferencing(v) = {}

\* One instruction references x in two slots and nothing else does: x has two
\* users though one distinct user instruction, and hasOneUser() is false.
C21_Witness ==
    /\ lastOp # "init"
    /\ Cardinality(SlotsReferencing("x")) = 2
    /\ Range(Users["x"]) = {"I1"}
    /\ GetNumUsers(Heap, "x") = 2
    /\ ~HasOneUser(Heap, "x")
    /\ HasUsers(Heap, "x")

\* ------------------------------------------------------------------------
\* Termination of getFunctionsInSegment.

\* C22: getFunctionsInSegment returns for every function-use graph, cyclic
\* ones included, and every range, ranges naming a wrapper twice included;
\* during the call every function goes beyond the result.count test, where it
\* is inserted into the result and its out-edges are pushed, at most once.
C22_SegmentWalkTerminates ==
    /\ [](walk.pc = "while" =>
             \A f \in Functions : Count(walk.visited, f) <= 1)
    /\ (walk.pc = "while") ~> (walk.pc = "done")

\* The call for the modules 0..4, whose range names w1 twice, on the cycle
\* w0 -> w1 -> w2 -> w0 has returned: every function was visited once, and w2
\* and w1 came up again on the worklist and were skipped.
C22_Witness ==
    /\ walk.pc = "done"
    /\ walk.range = [first |-> 0, last |-> 4]
    /\ Edges(cjsModuleUseGraph_) = {<<"w0", "w1">>, <<"w1", "w2">>, <<"w2", "w0">>}
    /\ walk.result = Functions
    /\ Len(walk.visited) = 4
    /\ walk.skipped = 2

====
